---------------------------- MODULE Spec2Model ----------------------------
(***************************************************************************)
(* Model of mevlog-rs src/misc/shared_init.rs: the EVM chain registry      *)
(* (EVMChainType / EVMChain) and the bootstrap sequence init_deps with     *)
(* init_provider.  One behaviour of the model is one call of init_deps.    *)
(***************************************************************************)
EXTENDS Integers, Sequences, FiniteSets, TLC

(***************************************************************************)
(* Bounds of the model.                                                    *)
(***************************************************************************)
\* The simulated endpoint fails transiently 0..MaxTransientFailures times.
MaxTransientFailures == 12

(***************************************************************************)
(* EVMChainType: the enum and its accessors.                               *)
(***************************************************************************)
Mainnet == [tag |-> "Mainnet"]
Base == [tag |-> "Base"]
BSC == [tag |-> "BSC"]
Arbitrum == [tag |-> "Arbitrum"]
Polygon == [tag |-> "Polygon"]
Metis == [tag |-> "Metis"]
Optimism == [tag |-> "Optimism"]
Avalanche == [tag |-> "Avalanche"]
Linea == [tag |-> "Linea"]
Scroll == [tag |-> "Scroll"]
Fantom == [tag |-> "Fantom"]
Unknown(id) == [tag |-> "Unknown", id |-> id]

\* Mutant of chain_id: the ids of Scroll and Fantom are swapped.
chain_id_swapped(t) ==
  CASE t.tag = "Mainnet" -> 1
    [] t.tag = "Base" -> 8453
    [] t.tag = "BSC" -> 56
    [] t.tag = "Arbitrum" -> 42161
    [] t.tag = "Polygon" -> 137
    [] t.tag = "Metis" -> 1088
    [] t.tag = "Optimism" -> 10
    [] t.tag = "Avalanche" -> 43114
    [] t.tag = "Linea" -> 59144
    [] t.tag = "Scroll" -> 250
    [] t.tag = "Fantom" -> 534352
    [] t.tag = "Unknown" -> t.id

chain_id(t) ==
  CASE t.tag = "Mainnet" -> 1
    [] t.tag = "Base" -> 8453
    [] t.tag = "BSC" -> 56
    [] t.tag = "Arbitrum" -> 42161
    [] t.tag = "Polygon" -> 137
    [] t.tag = "Metis" -> 1088
    [] t.tag = "Optimism" -> 10
    [] t.tag = "Avalanche" -> 43114
    [] t.tag = "Linea" -> 59144
    [] t.tag = "Scroll" -> 534352
    [] t.tag = "Fantom" -> 250
    [] t.tag = "Unknown" -> t.id

name(t) ==
  CASE t.tag = "Mainnet" -> "mainnet"
    [] t.tag = "Base" -> "base"
    [] t.tag = "BSC" -> "bsc"
    [] t.tag = "Arbitrum" -> "arbitrum"
    [] t.tag = "Polygon" -> "polygon"
    [] t.tag = "Metis" -> "metis"
    [] t.tag = "Optimism" -> "optimism"
    [] t.tag = "Avalanche" -> "avalanche"
    [] t.tag = "Linea" -> "linea"
    [] t.tag = "Scroll" -> "scroll"
    [] t.tag = "Fantom" -> "fantom"
    [] t.tag = "Unknown" -> "unknown"

supported ==
  << Mainnet, Base, BSC, Arbitrum, Polygon, Metis, Optimism, Avalanche,
     Linea, Scroll, Fantom >>

(***************************************************************************)
(* u64::to_string / format!("{}", u64): the decimal digits of n, most      *)
(* significant first, no sign and no leading zero.                         *)
(***************************************************************************)
Digits == << "0", "1", "2", "3", "4", "5", "6", "7", "8", "9" >>

RECURSIVE to_string(_)
to_string(n) ==
  IF n < 10 THEN Digits[n + 1]
  ELSE to_string(n \div 10) \o Digits[(n % 10) + 1]

(***************************************************************************)
(* EVMChain: constructor and accessors.                                    *)
(***************************************************************************)
\* Mutant of EVMChain_new: an unrecognised chain id is an error.
EVMChain_new_strict(id, rpc_url) ==
  LET hits == { i \in 1..Len(supported) : chain_id(supported[i]) = id }
  IN  IF hits # {}
      THEN [ok |-> TRUE,
            val |-> [chain_type |->
                       supported[CHOOSE i \in hits : \A j \in hits : i <= j],
                     rpc_url |-> rpc_url]]
      ELSE [ok |-> FALSE]

\* iter().find(): the first supported chain whose chain_id() equals id,
\* else Unknown(id).  The result is always Ok.
EVMChain_new(id, rpc_url) ==
  LET hits == { i \in 1..Len(supported) : chain_id(supported[i]) = id }
      matching_chain ==
        IF hits # {}
        THEN supported[CHOOSE i \in hits : \A j \in hits : i <= j]
        ELSE Unknown(id)
  IN  [ok |-> TRUE,
       val |-> [chain_type |-> matching_chain, rpc_url |-> rpc_url]]

EVMChain_chain_id(c) == chain_id(c.chain_type)

EVMChain_name(c) == name(c.chain_type)

\* Mutant of cryo_cache_dir_name: the Fantom arm is missing.
cryo_cache_dir_name_no_fantom(c) ==
  CASE c.chain_type.tag = "Mainnet" -> "ethereum"
    [] c.chain_type.tag = "BSC" -> "bnb"
    [] c.chain_type.tag = "Scroll" -> "network_534352"
    [] c.chain_type.tag = "Unknown" -> "network_" \o to_string(c.chain_type.id)
    [] OTHER -> to_string(EVMChain_chain_id(c))

cryo_cache_dir_name(c) ==
  CASE c.chain_type.tag = "Mainnet" -> "ethereum"
    [] c.chain_type.tag = "BSC" -> "bnb"
    [] c.chain_type.tag = "Scroll" -> "network_534352"
    [] c.chain_type.tag = "Fantom" -> "network_250"
    [] c.chain_type.tag = "Unknown" -> "network_" \o to_string(c.chain_type.id)
    [] OTHER -> to_string(EVMChain_chain_id(c))

price_oracle(c) ==
  CASE c.chain_type.tag = "Mainnet" -> "0x5f4eC3Df9cbd43714FE2740f5E3616155c5b8419"
    [] c.chain_type.tag = "Base" -> "0x71041dddad3595F9CEd3DcCFBe3D1F4b0a16Bb70"
    [] c.chain_type.tag = "BSC" -> "0x0567f2323251f0aab15c8dfb1967e4e8a7d42aee"
    [] c.chain_type.tag = "Arbitrum" -> "0x639Fe6ab55C921f74e7fac1ee960C0B6293ba612"
    [] c.chain_type.tag = "Polygon" -> "0xAB594600376Ec9fD91F8e885dADF0CE036862dE0"
    [] c.chain_type.tag = "Metis" -> "0xD4a5Bb03B5D66d9bf81507379302Ac2C2DFDFa6D"
    [] c.chain_type.tag = "Optimism" -> "0x13e3Ee699D1909E989722E753853AE30b17e08c5"
    [] c.chain_type.tag = "Avalanche" -> "0x0A77230d17318075983913bC2145DB16C7366156"
    [] c.chain_type.tag = "Linea" -> "0x3c6Cd9Cc7c7a4c2Cf5a82734CD249D7D593354dA"
    [] c.chain_type.tag = "Scroll" -> "0x6bF14CB0A831078629D993FDeBcB182b21A8774C"
    [] c.chain_type.tag = "Fantom" -> "0x11DdD3d147E5b83D01cee7070027092397d63658"
    [] c.chain_type.tag = "Unknown" -> "0x0000000000000000000000000000000000000000"

etherscan_url(c) ==
  CASE c.chain_type.tag = "Mainnet" -> "https://etherscan.io"
    [] c.chain_type.tag = "Base" -> "https://basescan.org"
    [] c.chain_type.tag = "BSC" -> "https://bscscan.com"
    [] c.chain_type.tag = "Arbitrum" -> "https://arbiscan.io"
    [] c.chain_type.tag = "Polygon" -> "https://polygonscan.com"
    [] c.chain_type.tag = "Metis" -> "https://andromeda-explorer.metis.io"
    [] c.chain_type.tag = "Optimism" -> "https://optimistic.etherscan.io"
    [] c.chain_type.tag = "Avalanche" -> "https://snowtrace.io"
    [] c.chain_type.tag = "Linea" -> "https://lineascan.build"
    [] c.chain_type.tag = "Scroll" -> "https://scrollscan.com"
    [] c.chain_type.tag = "Fantom" -> "https://explorer.fantom.network"
    [] c.chain_type.tag = "Unknown" -> "https://etherscan.io"

currency_symbol(c) ==
  CASE c.chain_type.tag = "BSC" -> "BNB"
    [] c.chain_type.tag = "Polygon" -> "POL"
    [] c.chain_type.tag = "Avalanche" -> "AVAX"
    [] c.chain_type.tag = "Metis" -> "METIS"
    [] c.chain_type.tag = "Fantom" -> "FTM"
    [] OTHER -> "ETH"


(***************************************************************************)
(* Option and Result values.                                               *)
(***************************************************************************)
None == [some |-> FALSE]
Some(v) == [some |-> TRUE, val |-> v]

Pending == [tag |-> "Pending"]
Ok(v) == [tag |-> "Ok", val |-> v]
Err(cause) == [tag |-> "Err", cause |-> cause]
Panic(at) == [tag |-> "Panic", at |-> at]

(***************************************************************************)
(* Inputs of one run: the connection options, the state of the file system *)
(* and the behaviour of the RPC endpoint.                                  *)
(***************************************************************************)
WellFormedUrls == { "http://node.example:8545", "https://rpc.example/v1" }
MalformedUrls == { "", "not a url" }

\* str::parse::<Url>() as used by init_provider: Ok on a well-formed URL.
url_parse(s) == IF s \in WellFormedUrls THEN Ok(s) ELSE Err("url_parse")

\* ConnOpts { rpc_url: Option<String>, .. }
ConnOptsValues ==
  { [rpc_url |-> u] : u \in {None} \cup { Some(s) : s \in WellFormedUrls \cup MalformedUrls } }

\* Chain ids an endpoint may answer: every supported id and ids around them.
SampleChainIds ==
  { chain_id(supported[i]) : i \in 1..Len(supported) }
    \cup { 0, 2, 57, 251, 999999, 2147483647 }

\* An endpoint fails transiently `transient` times, then answers with `then`:
\* "ok" (the chain id) or "fatal" (a non-transient failure).
Endpoints ==
  [transient : 0..MaxTransientFailures, then : {"ok", "fatal"}, chain_id : SampleChainIds]

(***************************************************************************)
(* init_provider: the retry policy and the transport.                      *)
(***************************************************************************)
max_retry == 10
backoff == 1000
cups == 100

\* Mutant of retry_layer: the arguments max_retry and cups are swapped.
retry_layer_swapped == [max_retry |-> cups, backoff |-> backoff, cups |-> max_retry]

\* RetryBackoffLayer::new(max_retry, backoff, cups)
retry_layer == [max_retry |-> max_retry, backoff |-> backoff, cups |-> cups]

\* Mutant of init_provider: the URL is not parsed when the client is built.
init_provider_unparsed(opts) ==
  IF opts.rpc_url.some
  THEN Ok([layer |-> retry_layer, url |-> opts.rpc_url.val])
  ELSE Panic("unreachable")

init_provider(opts) ==
  IF opts.rpc_url.some
  THEN LET parsed == url_parse(opts.rpc_url.val)
       IN  IF parsed.tag = "Ok"
           THEN Ok([layer |-> retry_layer, url |-> parsed.val])
           ELSE parsed
  ELSE Panic("unreachable")

\* RetryBackoffLayer at request time: a transient failure is retried while the
\* count of retries does not exceed max_retry; any other failure is returned.
retry_on_error(kind, n, layer) ==
  IF kind = "transient"
  THEN IF n + 1 > layer.max_retry
       THEN [retry |-> FALSE, n |-> n + 1]
       ELSE [retry |-> TRUE, n |-> n + 1]
  ELSE [retry |-> FALSE, n |-> n]

\* What the endpoint answers to the request number `sent + 1`.
endpoint_reply(e, sent) == IF sent < e.transient THEN "transient" ELSE e.then

\* download_db_file: after a successful download the cache file exists.
download_db_file(exists, r) == exists \/ r = "ok"

(***************************************************************************)
(* State of one run of init_deps.                                          *)
(***************************************************************************)
VARIABLES
  conn_opts,               \* the argument of init_deps
  db_file,                 \* whether the cache database file exists
  endpoint,                \* the behaviour of the node behind rpc_url
  pc,                      \* the position of init_deps
  trace,                   \* the external operations performed, in order
  sqlite_conn,             \* local: Option of the pool
  ens_lookup_worker,       \* local: Option of the ENS worker handle
  symbols_lookup_worker,   \* local: Option of the symbol worker handle
  provider,                \* local: Option of the provider
  rate_limit_retry_number, \* retries made by the request in flight
  chain_id_res,            \* local chain_id: Option of the id
  chain,                   \* local chain: Option of the EVMChain
  result                   \* what init_deps returned

vars ==
  << conn_opts, db_file, endpoint, pc, trace, sqlite_conn, ens_lookup_worker,
     symbols_lookup_worker, provider, rate_limit_retry_number, chain_id_res,
     chain, result >>

inputs == << conn_opts, endpoint >>
locals ==
  << sqlite_conn, ens_lookup_worker, symbols_lookup_worker, provider,
     rate_limit_retry_number, chain_id_res, chain >>

Log(op, res) == trace' = Append(trace, [op |-> op, res |-> res])
Return(r) == result' = r /\ pc' = "done"
Goto(l) == pc' = l /\ UNCHANGED result

Init ==
  /\ conn_opts \in ConnOptsValues
  /\ db_file \in BOOLEAN
  /\ endpoint \in Endpoints
  /\ pc = "validate"
  /\ trace = << >>
  /\ sqlite_conn = None
  /\ ens_lookup_worker = None
  /\ symbols_lookup_worker = None
  /\ provider = None
  /\ rate_limit_retry_number = 0
  /\ chain_id_res = None
  /\ chain = None
  /\ result = Pending

(***************************************************************************)
(* init_deps, one action per step.                                         *)
(***************************************************************************)
\* Mutant of ValidateUrl: the presence check is missing.
ValidateUrl_unchecked ==
  /\ pc = "validate"
  /\ Goto("db_file_exists")
  /\ UNCHANGED << inputs, db_file, trace, locals >>

\* Mutant of ValidateUrl: the URL is also parsed at the first step.
ValidateUrl_parsing ==
  /\ pc = "validate"
  /\ IF ~conn_opts.rpc_url.some
     THEN Return(Err("missing_url"))
     ELSE IF url_parse(conn_opts.rpc_url.val).tag = "Err"
          THEN Return(Err("url_parse"))
          ELSE Goto("db_file_exists")
  /\ UNCHANGED << inputs, db_file, trace, locals >>

ValidateUrl ==
  /\ pc = "validate"
  /\ IF ~conn_opts.rpc_url.some
     THEN Return(Err("missing_url"))
     ELSE Goto("db_file_exists")
  /\ UNCHANGED << inputs, db_file, trace, locals >>

\* Mutant of CheckDbFile: the condition is inverted.
CheckDbFile_inverted ==
  /\ pc = "db_file_exists"
  /\ Log("db_file_exists", IF db_file THEN "true" ELSE "false")
  /\ Goto(IF db_file THEN "create_dir_all" ELSE "sqlite_conn")
  /\ UNCHANGED << inputs, db_file, locals >>

CheckDbFile ==
  /\ pc = "db_file_exists"
  /\ Log("db_file_exists", IF db_file THEN "true" ELSE "false")
  /\ Goto(IF ~db_file THEN "create_dir_all" ELSE "sqlite_conn")
  /\ UNCHANGED << inputs, db_file, locals >>

\* Mutant of CreateDirAll: the error is propagated with `?`.
CreateDirAll_propagating ==
  /\ pc = "create_dir_all"
  /\ \E r \in {"ok", "err"} :
       /\ Log("create_dir_all", r)
       /\ IF r = "ok" THEN Goto("download_db_file") ELSE Return(Err("create_dir_all"))
  /\ UNCHANGED << inputs, db_file, locals >>

\* let _ = std::fs::create_dir_all(config_path()): the result is discarded.
CreateDirAll ==
  /\ pc = "create_dir_all"
  /\ \E r \in {"ok", "err"} : Log("create_dir_all", r)
  /\ Goto("download_db_file")
  /\ UNCHANGED << inputs, db_file, locals >>

DownloadDbFile ==
  /\ pc = "download_db_file"
  /\ \E r \in {"ok", "err"} :
       /\ Log("download_db_file", r)
       /\ db_file' = download_db_file(db_file, r)
       /\ IF r = "ok" THEN Goto("sqlite_conn") ELSE Return(Err("download_db_file"))
  /\ UNCHANGED << inputs, locals >>

SqliteConn ==
  /\ pc = "sqlite_conn"
  /\ \E r \in {"ok", "err"} :
       /\ Log("sqlite_conn", r)
       /\ IF r = "ok"
          THEN sqlite_conn' = Some("pool") /\ Goto("start_ens_lookup_worker")
          ELSE Return(Err("sqlite_conn")) /\ UNCHANGED sqlite_conn
  /\ UNCHANGED << inputs, db_file, ens_lookup_worker, symbols_lookup_worker,
                  provider, rate_limit_retry_number, chain_id_res, chain >>

StartEnsLookupWorker ==
  /\ pc = "start_ens_lookup_worker"
  /\ Log("start_ens_lookup_worker", "ok")
  /\ ens_lookup_worker' = Some("ens_sender")
  /\ Goto("start_symbols_lookup_worker")
  /\ UNCHANGED << inputs, db_file, sqlite_conn, symbols_lookup_worker, provider,
                  rate_limit_retry_number, chain_id_res, chain >>

StartSymbolsLookupWorker ==
  /\ pc = "start_symbols_lookup_worker"
  /\ Log("start_symbols_lookup_worker", "ok")
  /\ symbols_lookup_worker' = Some("symbols_worker")
  /\ Goto("init_provider")
  /\ UNCHANGED << inputs, db_file, sqlite_conn, ens_lookup_worker, provider,
                  rate_limit_retry_number, chain_id_res, chain >>

InitProvider ==
  /\ pc = "init_provider"
  /\ LET r == init_provider(conn_opts)
     IN  IF r.tag = "Ok"
         THEN /\ Log("init_provider", "ok")
              /\ provider' = Some(r.val)
              /\ Goto("get_chain_id")
         ELSE IF r.tag = "Err"
         THEN /\ Log("init_provider", "err")
              /\ Return(r)
              /\ UNCHANGED provider
         ELSE /\ Return(r)
              /\ UNCHANGED << trace, provider >>
  /\ UNCHANGED << inputs, db_file, sqlite_conn, ens_lookup_worker,
                  symbols_lookup_worker, rate_limit_retry_number, chain_id_res,
                  chain >>

\* Mutant of GetChainId: a failed query falls back to chain id 1.
GetChainId_fallback ==
  /\ pc = "get_chain_id"
  /\ LET sent == Len(SelectSeq(trace, LAMBDA e : e.op = "get_chain_id"))
         reply == endpoint_reply(endpoint, sent)
         d == retry_on_error(reply, rate_limit_retry_number, provider.val.layer)
     IN  /\ Log("get_chain_id", reply)
         /\ IF reply = "ok"
            THEN /\ chain_id_res' = Some(endpoint.chain_id)
                 /\ Goto("chain_new")
                 /\ UNCHANGED rate_limit_retry_number
            ELSE /\ rate_limit_retry_number' = d.n
                 /\ IF d.retry
                    THEN Goto("get_chain_id") /\ UNCHANGED chain_id_res
                    ELSE chain_id_res' = Some(1) /\ Goto("chain_new")
  /\ UNCHANGED << inputs, db_file, sqlite_conn, ens_lookup_worker,
                  symbols_lookup_worker, provider, chain >>

\* provider.get_chain_id().await?: one request sent through the retry layer.
GetChainId ==
  /\ pc = "get_chain_id"
  /\ LET sent == Len(SelectSeq(trace, LAMBDA e : e.op = "get_chain_id"))
         reply == endpoint_reply(endpoint, sent)
         d == retry_on_error(reply, rate_limit_retry_number, provider.val.layer)
     IN  /\ Log("get_chain_id", reply)
         /\ IF reply = "ok"
            THEN /\ chain_id_res' = Some(endpoint.chain_id)
                 /\ Goto("chain_new")
                 /\ UNCHANGED rate_limit_retry_number
            ELSE /\ rate_limit_retry_number' = d.n
                 /\ UNCHANGED chain_id_res
                 /\ IF d.retry
                    THEN Goto("get_chain_id")
                    ELSE Return(Err(IF reply = "transient"
                                    THEN "max_retries_exceeded"
                                    ELSE "transport"))
  /\ UNCHANGED << inputs, db_file, sqlite_conn, ens_lookup_worker,
                  symbols_lookup_worker, provider, chain >>

\* EVMChain::new(chain_id, conn_opts.rpc_url.clone().unwrap())?
EVMChainNew ==
  /\ pc = "chain_new"
  /\ IF ~conn_opts.rpc_url.some
     THEN Return(Panic("unwrap")) /\ UNCHANGED << trace, chain >>
     ELSE LET r == EVMChain_new(chain_id_res.val, conn_opts.rpc_url.val)
          IN  IF r.ok
              THEN /\ Log("EVMChain_new", "ok")
                   /\ chain' = Some(r.val)
                   /\ Goto("assemble")
              ELSE /\ Log("EVMChain_new", "err")
                   /\ Return(Err("EVMChain_new"))
                   /\ UNCHANGED chain
  /\ UNCHANGED << inputs, db_file, sqlite_conn, ens_lookup_worker,
                  symbols_lookup_worker, provider, rate_limit_retry_number,
                  chain_id_res >>

\* Ok(SharedDeps { sqlite, ens_lookup_worker, symbols_lookup_worker, provider, chain })
Assemble ==
  /\ pc = "assemble"
  /\ Log("SharedDeps", "ok")
  /\ Return(Ok([sqlite |-> sqlite_conn.val,
                ens_lookup_worker |-> ens_lookup_worker.val,
                symbols_lookup_worker |-> symbols_lookup_worker.val,
                provider |-> provider.val,
                chain |-> chain.val]))
  /\ UNCHANGED << inputs, db_file, locals >>

Next ==
  \/ ValidateUrl
  \/ CheckDbFile
  \/ CreateDirAll
  \/ DownloadDbFile
  \/ SqliteConn
  \/ StartEnsLookupWorker
  \/ StartSymbolsLookupWorker
  \/ InitProvider
  \/ GetChainId
  \/ EVMChainNew
  \/ Assemble

Spec == Init /\ [][Next]_vars


(***************************************************************************)
(* Reading the trace.                                                      *)
(***************************************************************************)
Ops(op) == { i \in 1..Len(trace) : trace[i].op = op }
Did(op) == Ops(op) # {}
Entry(op, res) == [op |-> op, res |-> res]
IsLast(i) == i = Len(trace)
UrlMissing == ~conn_opts.rpc_url.some
UrlMalformed == conn_opts.rpc_url.some /\ conn_opts.rpc_url.val \in MalformedUrls
NoLocals ==
  /\ sqlite_conn = None
  /\ ens_lookup_worker = None
  /\ symbols_lookup_worker = None
  /\ provider = None
  /\ chain_id_res = None
  /\ chain = None

(***************************************************************************)
(* C1: if ConnOpts.rpc_url is absent, init_deps returns an error before    *)
(* any file-system or network operation: no cache-file check, directory    *)
(* creation, download, database open, worker spawn, transport build or     *)
(* chain-id query happens in that run.                                     *)
(***************************************************************************)
C1_MissingUrlFailsFirst ==
  UrlMissing =>
    /\ trace = << >>
    /\ NoLocals
    /\ rate_limit_retry_number = 0
    /\ pc \in {"validate", "done"}
    /\ pc = "done" => result = Err("missing_url")

C1_Witness == UrlMissing /\ pc = "done" /\ result.tag = "Err"

(***************************************************************************)
(* C2: init_deps runs validate URL -> ensure cache file -> open database   *)
(* pool -> spawn ENS and symbol workers -> build transport -> query chain  *)
(* id -> EVMChain::new -> assemble SharedDeps in this order; a step runs   *)
(* only if every earlier step succeeded; SharedDeps is returned only when  *)
(* all steps succeeded; on any failure the result is an error, no later    *)
(* step runs and no fallback chain identity is substituted.                *)
(***************************************************************************)
\* The step `cur` may directly follow the step `prev`.
C2_Follows(prev, cur) ==
  \/ prev = Entry("db_file_exists", "true") /\ cur.op = "sqlite_conn"
  \/ prev = Entry("db_file_exists", "false") /\ cur.op = "create_dir_all"
  \/ prev.op = "create_dir_all" /\ cur.op = "download_db_file"
  \/ prev = Entry("download_db_file", "ok") /\ cur.op = "sqlite_conn"
  \/ prev = Entry("sqlite_conn", "ok") /\ cur.op = "start_ens_lookup_worker"
  \/ prev = Entry("start_ens_lookup_worker", "ok") /\ cur.op = "start_symbols_lookup_worker"
  \/ prev = Entry("start_symbols_lookup_worker", "ok") /\ cur.op = "init_provider"
  \/ prev = Entry("init_provider", "ok") /\ cur.op = "get_chain_id"
  \/ prev = Entry("get_chain_id", "transient") /\ cur.op = "get_chain_id"
  \/ prev = Entry("get_chain_id", "ok") /\ cur.op = "EVMChain_new"
  \/ prev = Entry("EVMChain_new", "ok") /\ cur.op = "SharedDeps"

C2_StrictOrder ==
  /\ trace # << >> => ~UrlMissing /\ trace[1].op = "db_file_exists"
  /\ \A i \in 2..Len(trace) : C2_Follows(trace[i - 1], trace[i])
  /\ pc = "done" => result.tag \in {"Ok", "Err"}
  /\ pc # "done" => result = Pending
  /\ result.tag = "Ok" =>
       /\ trace[Len(trace)] = Entry("SharedDeps", "ok")
       /\ sqlite_conn.some /\ ens_lookup_worker.some /\ symbols_lookup_worker.some
       /\ provider.some /\ chain.some
       /\ result.val = [sqlite |-> sqlite_conn.val,
                        ens_lookup_worker |-> ens_lookup_worker.val,
                        symbols_lookup_worker |-> symbols_lookup_worker.val,
                        provider |-> provider.val,
                        chain |-> chain.val]
       /\ endpoint.then = "ok"
       /\ chain_id(chain.val.chain_type) = endpoint.chain_id
  /\ result.tag = "Err" =>
       /\ chain = None
       /\ ~Did("SharedDeps")
       /\ trace # << >> => trace[Len(trace)].res \in {"err", "fatal", "transient"}
  /\ \A i \in Ops("get_chain_id") :
       (IsLast(i) /\ trace[i].res # "ok" /\ pc = "done") =>
         result.tag = "Err" /\ chain_id_res = None

C2_Witness ==
  /\ result.tag = "Err"
  /\ result.cause = "max_retries_exceeded"
  /\ Did("start_symbols_lookup_worker")

(***************************************************************************)
(* C3: for every chain id in the supported set {1, 8453, 56, 42161, 137,   *)
(* 1088, 10, 43114, 59144, 534352, 250}, EVMChain::new returns a known     *)
(* variant whose chain_id() is the id and whose name() is the documented   *)
(* string; the supported ids are pairwise distinct.                        *)
(***************************************************************************)
DocSupportedIds == { 1, 8453, 56, 42161, 137, 1088, 10, 43114, 59144, 534352, 250 }

DocName(id) ==
  CASE id = 1 -> "mainnet"
    [] id = 8453 -> "base"
    [] id = 56 -> "bsc"
    [] id = 42161 -> "arbitrum"
    [] id = 137 -> "polygon"
    [] id = 1088 -> "metis"
    [] id = 10 -> "optimism"
    [] id = 43114 -> "avalanche"
    [] id = 59144 -> "linea"
    [] id = 534352 -> "scroll"
    [] id = 250 -> "fantom"

C3_SupportedLookup ==
  /\ \A i, j \in 1..Len(supported) :
       i # j => chain_id(supported[i]) # chain_id(supported[j])
  /\ { chain_id(supported[i]) : i \in 1..Len(supported) } = DocSupportedIds
  /\ (chain.some /\ chain_id_res.val \in DocSupportedIds) =>
       /\ chain.val.chain_type.tag # "Unknown"
       /\ EVMChain_chain_id(chain.val) = chain_id_res.val
       /\ EVMChain_name(chain.val) = DocName(chain_id_res.val)

C3_Witness ==
  /\ chain.some
  /\ chain_id_res = Some(250)
  /\ EVMChain_name(chain.val) = "fantom"

(***************************************************************************)
(* C4: for every chain id outside the supported set, EVMChain::new         *)
(* succeeds (bootstrap is not aborted) and yields Unknown(id) with         *)
(* chain_id() = id, name() = "unknown", the all-zero price oracle,         *)
(* currency symbol "ETH" and the mainnet explorer URL.                     *)
(***************************************************************************)
C4_UnknownLookup ==
  (chain_id_res.some /\ chain_id_res.val \notin DocSupportedIds) =>
    /\ \A i \in Ops("EVMChain_new") : trace[i].res = "ok" /\ chain.some
    /\ pc = "done" => result.tag = "Ok"
    /\ chain.some =>
         /\ chain.val.chain_type = Unknown(chain_id_res.val)
         /\ EVMChain_chain_id(chain.val) = chain_id_res.val
         /\ EVMChain_name(chain.val) = "unknown"
         /\ price_oracle(chain.val) = "0x0000000000000000000000000000000000000000"
         /\ currency_symbol(chain.val) = "ETH"
         /\ etherscan_url(chain.val) = "https://etherscan.io"
         /\ etherscan_url(chain.val) = etherscan_url([chain_type |-> Mainnet])

C4_Witness ==
  /\ result.tag = "Ok"
  /\ result.val.chain.chain_type = Unknown(999999)

(***************************************************************************)
(* C5: cryo_cache_dir_name follows the table: chain id 1 -> "ethereum";    *)
(* BSC (56) -> "bnb"; Scroll (534352), Fantom (250) and every unknown id   *)
(* -> "network_<id>" with <id> the decimal chain id; every other known     *)
(* chain -> its decimal chain id.                                          *)
(***************************************************************************)
DocCacheDirRule(id) ==
  IF id = 1 THEN "ethereum"
  ELSE IF id = 56 THEN "bnb"
  ELSE IF id \in {534352, 250} \/ id \notin DocSupportedIds
       THEN "network_" \o to_string(id)
  ELSE to_string(id)

\* The same table written out for the sampled chain ids.
DocCacheDirTable ==
  { << 1, "ethereum" >>, << 56, "bnb" >>,
    << 534352, "network_534352" >>, << 250, "network_250" >>,
    << 8453, "8453" >>, << 42161, "42161" >>, << 137, "137" >>,
    << 1088, "1088" >>, << 10, "10" >>, << 43114, "43114" >>,
    << 59144, "59144" >>,
    << 0, "network_0" >>, << 2, "network_2" >>, << 57, "network_57" >>,
    << 251, "network_251" >>, << 999999, "network_999999" >>,
    << 2147483647, "network_2147483647" >> }

C5_CacheDirTable ==
  chain.some =>
    /\ cryo_cache_dir_name(chain.val) = DocCacheDirRule(chain_id_res.val)
    /\ \E row \in DocCacheDirTable :
         row[1] = chain_id_res.val /\ cryo_cache_dir_name(chain.val) = row[2]

C5_Witness ==
  /\ chain.some
  /\ chain.val.chain_type = Fantom
  /\ cryo_cache_dir_name(chain.val) = "network_250"


(***************************************************************************)
(* C6: a request through the transport built by init_provider (max retries *)
(* 10, base backoff 1000 ms) against an endpoint that fails transiently    *)
(* exactly 9 times and then succeeds returns success; against an endpoint  *)
(* that fails transiently 11 times it returns a terminal transport error   *)
(* and no 12th attempt is made; a non-transient failure is returned after  *)
(* a single attempt without retry.                                         *)
(***************************************************************************)
Sent == Cardinality(Ops("get_chain_id"))
RequestOver == Did("get_chain_id") /\ pc # "get_chain_id"

C6_RetryBudget ==
  /\ provider.some =>
       provider.val.layer.max_retry = 10 /\ provider.val.layer.backoff = 1000
  /\ Sent <= 11
  /\ (RequestOver /\ endpoint.transient = 9 /\ endpoint.then = "ok") =>
       /\ chain_id_res = Some(endpoint.chain_id)
       /\ result.tag # "Err"
       /\ Sent = 10
  /\ (RequestOver /\ endpoint.transient >= 11) =>
       /\ result = Err("max_retries_exceeded")
       /\ chain_id_res = None
       /\ Sent = 11
  /\ \A i \in Ops("get_chain_id") :
       trace[i].res = "fatal" =>
         /\ IsLast(i)
         /\ result = Err("transport")
         /\ endpoint.transient = 0 => Sent = 1

C6_Witness ==
  /\ endpoint.transient = 11
  /\ Sent = 11
  /\ result = Err("max_retries_exceeded")

C6_WitnessSuccess ==
  /\ endpoint.transient = 9
  /\ Sent = 10
  /\ result.tag = "Ok"

(***************************************************************************)
(* C7 as stated: when the cache database file is absent, a failure to      *)
(* create the config directory is fatal: init_deps returns an error with   *)
(* no download, database open, worker spawn, transport build or chain-id   *)
(* query performed afterwards.                                             *)
(***************************************************************************)
MkdirFailed == Entry("create_dir_all", "err") \in { trace[i] : i \in 1..Len(trace) }

C7_MkdirFailureFatal ==
  MkdirFailed =>
    /\ ~Did("download_db_file")
    /\ ~Did("sqlite_conn")
    /\ ~Did("start_ens_lookup_worker")
    /\ ~Did("start_symbols_lookup_worker")
    /\ ~Did("init_provider")
    /\ ~Did("get_chain_id")
    /\ result.tag # "Ok"

(***************************************************************************)
(* C7 amended: when the cache database file is absent, the outcome of the  *)
(* directory creation is discarded: whether it failed or not, init_deps    *)
(* goes on to invoke the download.  A download failure is fatal: init_deps *)
(* returns an error with no database open, worker spawn, transport build   *)
(* or chain-id query performed afterwards.                                 *)
(***************************************************************************)
C7_MkdirFailureIgnored ==
  /\ \A i \in Ops("create_dir_all") :
       /\ trace[1] = Entry("db_file_exists", "false")
       /\ IsLast(i) => pc = "download_db_file" /\ result = Pending
       /\ ~IsLast(i) => trace[i + 1].op = "download_db_file"
  /\ \A i \in Ops("download_db_file") :
       trace[i].res = "err" =>
         /\ IsLast(i)
         /\ pc = "done"
         /\ result = Err("download_db_file")
         /\ NoLocals

C7_Witness ==
  /\ MkdirFailed
  /\ Did("download_db_file")
  /\ pc = "done"

(***************************************************************************)
(* C8: a malformed RPC URL is a fatal configuration error with no retry:   *)
(* init_provider fails at URL parsing without building a client and        *)
(* without issuing any request, and init_deps then returns an error        *)
(* without performing the chain-id query or resolving a chain.             *)
(***************************************************************************)
C8_MalformedUrlFatal ==
  /\ Cardinality(Ops("init_provider")) <= 1
  /\ UrlMalformed =>
       /\ provider = None
       /\ ~Did("get_chain_id")
       /\ ~Did("EVMChain_new")
       /\ rate_limit_retry_number = 0
       /\ chain_id_res = None
       /\ chain = None
       /\ result.tag # "Ok"
       /\ pc \notin {"get_chain_id", "chain_new", "assemble"}
       /\ \A i \in Ops("init_provider") :
            /\ trace[i].res = "err"
            /\ IsLast(i)
            /\ pc = "done"
            /\ result = Err("url_parse")
  /\ \A i \in Ops("init_provider") : trace[i].res = "err" => UrlMalformed

C8_Witness ==
  /\ UrlMalformed
  /\ Did("init_provider")
  /\ result = Err("url_parse")

(***************************************************************************)
(* C9: the cache bootstrap step guarantees the cache file exists before    *)
(* the database pool is opened and is a no-op when it already does: if     *)
(* db_file_exists() is true, neither directory creation nor download is    *)
(* performed; if it is false, directory creation is attempted and then the *)
(* download is invoked exactly once, and the database is opened only after *)
(* the download succeeded.                                                 *)
(***************************************************************************)
C9_CacheBootstrap ==
  /\ Cardinality(Ops("db_file_exists")) <= 1
  /\ Cardinality(Ops("create_dir_all")) <= 1
  /\ Cardinality(Ops("download_db_file")) <= 1
  /\ trace # << >> =>
       /\ trace[1].op = "db_file_exists"
       /\ trace[1].res = "true" =>
            ~Did("create_dir_all") /\ ~Did("download_db_file")
       /\ trace[1].res = "false" =>
            /\ Len(trace) >= 2 => trace[2].op = "create_dir_all"
            /\ Len(trace) >= 3 => trace[3].op = "download_db_file"
            /\ pc \in {"create_dir_all", "download_db_file"} <=> Len(trace) < 3
  /\ \A i \in Ops("sqlite_conn") :
       /\ db_file
       /\ \/ i = 2 /\ trace[1] = Entry("db_file_exists", "true")
          \/ i = 4 /\ trace[3] = Entry("download_db_file", "ok")

C9_Witness ==
  /\ trace # << >>
  /\ trace[1] = Entry("db_file_exists", "false")
  /\ Did("sqlite_conn")

C9_WitnessNoOp ==
  /\ trace # << >>
  /\ trace[1] = Entry("db_file_exists", "true")
  /\ Did("sqlite_conn")

(***************************************************************************)
(* C10: the RPC URL is checked only for presence at the first step and for *)
(* syntax only when the transport is built, so in every run that fails     *)
(* because of a malformed URL or a failed chain-id query the cache file    *)
(* check/download, the database pool open and the spawn of both resolver   *)
(* workers have already taken place and are not undone; and the            *)
(* unreachable!() branch of init_provider and the rpc_url unwrap() at      *)
(* chain construction are never executed with an absent URL.               *)
(***************************************************************************)
LateFailure ==
  /\ result.tag = "Err"
  /\ result.cause \in {"url_parse", "transport", "max_retries_exceeded"}

C10_LateFailureAfterSideEffects ==
  /\ result.tag # "Panic"
  /\ pc \in {"init_provider", "chain_new"} => ~UrlMissing
  /\ UrlMalformed =>
       (pc = "done" => result = Err("download_db_file")
                        \/ result = Err("sqlite_conn")
                        \/ result = Err("url_parse"))
  /\ LateFailure =>
       /\ trace # << >>
       /\ trace[1].op = "db_file_exists"
       /\ db_file
       /\ \A i \in Ops("download_db_file") : trace[i].res = "ok"
       /\ \E i, j, k, l \in 1..Len(trace) :
            /\ i < j /\ j < k /\ k < l
            /\ trace[i] = Entry("sqlite_conn", "ok")
            /\ trace[j] = Entry("start_ens_lookup_worker", "ok")
            /\ trace[k] = Entry("start_symbols_lookup_worker", "ok")
            /\ trace[l].op \in {"init_provider", "get_chain_id"}
            /\ trace[l].res # "ok"
            /\ IsLast(l)
       /\ sqlite_conn.some
       /\ ens_lookup_worker.some
       /\ symbols_lookup_worker.some

C10_Witness ==
  /\ result = Err("url_parse")
  /\ Did("download_db_file")
  /\ Did("start_symbols_lookup_worker")

C10_WitnessChainId ==
  /\ result = Err("transport")
  /\ Did("start_symbols_lookup_worker")

=============================================================================
